---- MODULE Spec2Model ----
(***************************************************************************)
(* Model of misc/scheduler-model/graph.py: the dependency graph (Node,     *)
(* Edge), the ready queue (EdgePriorityQueue), the readiness tracker and   *)
(* execution simulator (Plan) and the priority computer                    *)
(* (compute_priority_critical_time).                                       *)
(*                                                                         *)
(* Edges are numbered 1..nE; `edges` lists them in the order the caller    *)
(* passes them.  Node 0 is an external input node (in_edge is None); node  *)
(* e (1 <= e <= nE) is the output node of edge e and node nE + 1 a second  *)
(* output of edge 1.  An inputs list names each node once.  None is the    *)
(* Python None.                                                            *)
(*                                                                         *)
(* Names the file writes loosely are read as what they stand for:          *)
(* heapq.push and heapq.pop as heapq.heappush and heapq.heappop ordered by *)
(* Edge.__cmp__, work_queue.push as deque.append, and ready, waiting_for,  *)
(* inputs and queue inside the methods as the object's own fields.         *)
(***************************************************************************)
EXTENDS Integers, Sequences, FiniteSets, TLC

\* ------------------------------------------------------------------ bounds
\* The numbers of edges of the graphs.
EdgeCounts == {0, 1, 2, 3}
\* Largest run time (estimated or actual) of an edge.
MaxRunTime == 2
\* Largest number of worker slots of execute.
MaxJobs == 3

\* Longest list of edges p75_runtime is called on.
MaxP75Len == 4
\* The estimates of those edges.
P75Values == {5, 10, 15, 20}

None == -1

VARIABLES
  \* the graph, as handed over by the external builder
  edges,               \* the `edges` list: the edges 1 .. nE in some order
  inputs,              \* Edge.inputs: edge -> sequence of nodes
  outputs,             \* Edge.outputs: edge -> sequence of nodes
  in_edge,             \* Node.in_edge: node -> edge or None
  run_time_ms,         \* Edge.run_time_ms: edge -> estimate or None
  actual_run_time_ms,  \* Edge.actual_run_time_ms
  id,                  \* Edge.id
  priority,            \* Edge.priority
  \* Plan
  node_ready,          \* Node.ready
  ready,               \* Plan.ready: the heap list of EdgePriorityQueue
  waiting_for,         \* Plan.waiting_for: node -> sequence of edges
  pc,                  \* where the caller of the Plan is
  n_jobs,              \* execute's argument
  active_edges,        \* execute's slots: slot -> edge or None
  completion_time,     \* execute's slots: slot -> time or None
  current_time,        \* execute's clock
  start_times,         \* execute's result: edge -> time or None (no entry)
  \* bookkeeping of the Plan's calls (not program state)
  push_count,          \* edge -> number of ready.push(edge) so far
  sim_finished,        \* edge -> number of edge_finished(edge) calls by execute
  found,               \* edges find_work has returned to the dispatcher
  finished,            \* edges the dispatcher called edge_finished on
  \* compute_priority_critical_time
  default_run_time,    \* its argument
  cp_pc,               \* where the call is
  work_queue,          \* its deque
  cp_active_edges,     \* its set active_edges
  max_id,              \* its max_id (None before it is computed)
  critical_time,       \* edge -> priority when the loop ended (bookkeeping)
  removed              \* edges work_queue.popleft() has returned (bookkeeping)

graphVars == <<edges, inputs, outputs, in_edge, run_time_ms,
               actual_run_time_ms, id, priority>>
planVars == <<node_ready, ready, waiting_for, pc, n_jobs, active_edges,
              completion_time, current_time, start_times>>
histVars == <<push_count, sim_finished, found, finished>>
prioVars == <<default_run_time, cp_pc, work_queue, cp_active_edges, max_id,
              critical_time, removed>>
vars == <<graphVars, planVars, histVars, prioVars>>

\* ------------------------------------------------------------------- graph
\* Edges are 1 .. nE.  Node 0 has no producing edge; node e is the output of
\* edge e; node nE + 1 is a second output of edge 1.
EdgeSet == 1 .. Len(edges)
NodeSet == 0 .. Len(edges) + 1

\* Node.in_edge of the nodes of a graph of n edges.
InEdges(n) ==
  [k \in 0 .. n + 1 |->
     IF k = 0 \/ n = 0 THEN None ELSE IF k <= n THEN k ELSE 1]

\* Edge.outputs of the edges of a graph of n edges.
Outputs(n) == [e \in 1 .. n |-> IF e = 1 THEN <<1, n + 1>> ELSE <<e>>]

\* The nodes of S as a list, in ascending order.
RECURSIVE AscList(_)
AscList(S) ==
  IF S = {} THEN <<>>
  ELSE LET m == CHOOSE x \in S : \A y \in S : x <= y
       IN  <<m>> \o AscList(S \ {m})

\* The inputs lists over the nodes S: any nodes, each listed once.
InputLists(S) == {AscList(T) : T \in SUBSET S}

\* The nodes an edge e of a graph of n edges, numbered in a topological
\* order, can depend on: node 0 and the outputs of the edges before it.
NodesBefore(e, n) == (0 .. e - 1) \cup (IF e > 1 THEN {n + 1} ELSE {})

\* The acyclic graphs of n edges.
DagInputs(n) ==
  {f \in [1 .. n -> InputLists(0 .. n + 1)] :
     \A e \in 1 .. n : f[e] \in InputLists(NodesBefore(e, n))}

Injective(f) == \A a, b \in DOMAIN f : a # b => f[a] # f[b]

RECURSIVE SeqOf(_)
SeqOf(n) == IF n = 0 THEN <<>> ELSE Append(SeqOf(n - 1), n)

\* ------------------------------------------------------- EdgePriorityQueue
\* The comparison the other way round: a sorts before b when a's priority is
\* the smaller.
LtLowestFirst(a, b) == priority[a] < priority[b]

\* Edge.__cmp__, the order heapq keeps the list in: a sorts before b when a's
\* priority is the larger.
Lt(a, b) == priority[a] > priority[b]

\* heapq's _siftdown, positions counted from 0 as in Python.
RECURSIVE SiftDown(_, _, _, _)
SiftDown(heap, startpos, pos, newitem) ==
  IF pos > startpos
  THEN LET parentpos == (pos - 1) \div 2
           parent == heap[parentpos + 1]
       IN  IF Lt(newitem, parent)
           THEN SiftDown([heap EXCEPT ![pos + 1] = parent], startpos,
                         parentpos, newitem)
           ELSE [heap EXCEPT ![pos + 1] = newitem]
  ELSE [heap EXCEPT ![pos + 1] = newitem]

\* heapq's _siftup.
RECURSIVE SiftUp(_, _, _)
SiftUp(heap, pos, newitem) ==
  LET endpos == Len(heap)
      childpos == 2 * pos + 1
      rightpos == childpos + 1
      c == IF rightpos < endpos /\ ~Lt(heap[childpos + 1], heap[rightpos + 1])
           THEN rightpos ELSE childpos
  IN  IF childpos < endpos
      THEN SiftUp([heap EXCEPT ![pos + 1] = heap[c + 1]], c, newitem)
      ELSE SiftDown([heap EXCEPT ![pos + 1] = newitem], 0, pos, newitem)

\* EdgePriorityQueue.push
Push(queue, item) == SiftDown(Append(queue, item), 0, Len(queue), item)

\* EdgePriorityQueue.pop: the item returned (None when the queue is empty).
PopItem(queue) == IF Len(queue) = 0 THEN None ELSE queue[1]

\* EdgePriorityQueue.pop: the queue left.
PopRest(queue) ==
  IF Len(queue) <= 1 THEN <<>>
  ELSE LET lastelt == queue[Len(queue)]
           rest == SubSeq(queue, 1, Len(queue) - 1)
       IN  SiftUp(rest, 0, lastelt)

InQueue(queue, e) == \E i \in 1 .. Len(queue) : queue[i] = e

\* -------------------------------------------------------------------- Plan
\* Edge.all_inputs_ready, on the ready flags nr.
AllInputsReady(nr, e) == \A i \in 1 .. Len(inputs[e]) : nr[inputs[e][i]]

\* Plan.__init__'s loops: waiting_for[n] lists, in the order of `edges`, every
\* edge once for each time n occurs in its inputs.
RECURSIVE WaitersIn(_, _, _)
WaitersIn(ins, n, i) ==
  IF i > Len(ins) THEN <<>>
  ELSE (IF ins[i] = n THEN <<1>> ELSE <<>>) \o WaitersIn(ins, n, i + 1)

RECURSIVE BuildWaitingFor(_, _, _)
BuildWaitingFor(es, ins, n) ==
  IF es = <<>> THEN <<>>
  ELSE [k \in 1 .. Len(WaitersIn(ins[Head(es)], n, 1)) |-> Head(es)]
       \o BuildWaitingFor(Tail(es), ins, n)

\* The inner loop without its test of all_inputs_ready: every waiting edge is
\* pushed.
RECURSIVE PushWaitingUnchecked(_, _, _)
PushWaitingUnchecked(st, ws, i) ==
  IF i > Len(ws) THEN st
  ELSE PushWaitingUnchecked([st EXCEPT !.q = Push(st.q, ws[i]),
                                       !.pushed[ws[i]] = st.pushed[ws[i]] + 1],
                            ws, i + 1)

\* Plan.edge_finished's inner loop over waiting_for[n], from position i; st is
\* [nr: the ready flags, q: the ready queue, pushed: the push counts].
RECURSIVE PushWaiting(_, _, _)
PushWaiting(st, ws, i) ==
  IF i > Len(ws) THEN st
  ELSE LET e == ws[i]
       IN  IF AllInputsReady(st.nr, e)
           THEN PushWaiting([st EXCEPT !.q = Push(st.q, e),
                                       !.pushed[e] = st.pushed[e] + 1],
                            ws, i + 1)
           ELSE PushWaiting(st, ws, i + 1)

\* Plan.edge_finished's outer loop over edge.outputs, from position k.
RECURSIVE FinishOutputs(_, _, _)
FinishOutputs(st, outs, k) ==
  IF k > Len(outs) THEN st
  ELSE LET n == outs[k]
           marked == [st EXCEPT !.nr[n] = TRUE]
       IN  FinishOutputs(PushWaiting(marked, waiting_for[n], 1), outs, k + 1)

\* Plan.edge_finished
EdgeFinished(st, edge) == FinishOutputs(st, outputs[edge], 1)

PlanState == [nr |-> node_ready, q |-> ready, pushed |-> push_count]

\* The state after Plan(nodes, edges) for one graph of the builder.
PlanInit ==
  /\ edges \in {SeqOf(n) : n \in EdgeCounts}
  /\ inputs \in DagInputs(Len(edges))
  /\ outputs = Outputs(Len(edges))
  /\ in_edge = InEdges(Len(edges))
  /\ run_time_ms = [e \in EdgeSet |-> None]
  /\ actual_run_time_ms \in [EdgeSet -> 1 .. MaxRunTime]
  /\ id = [e \in EdgeSet |-> e]
  /\ priority \in {f \in [EdgeSet -> EdgeSet] : Injective(f)}
  /\ node_ready = [n \in NodeSet |-> FALSE]
  /\ ready = <<>>
  /\ waiting_for = [n \in NodeSet |-> BuildWaitingFor(edges, inputs, n)]
  /\ pc = "api"
  /\ n_jobs = 0
  /\ active_edges = <<>>
  /\ completion_time = <<>>
  /\ current_time = 0
  /\ start_times = [e \in EdgeSet |-> None]
  /\ push_count = [e \in EdgeSet |-> 0]
  /\ sim_finished = [e \in EdgeSet |-> 0]
  /\ found = {}
  /\ finished = {}
  /\ default_run_time = 1
  /\ cp_pc = "unused"
  /\ work_queue = <<>>
  /\ cp_active_edges = {}
  /\ max_id = None
  /\ critical_time = [e \in EdgeSet |-> None]
  /\ removed = {}

\* Plan.find_work, called by the dispatcher.
FindWork ==
  /\ pc = "api"
  /\ ready' = PopRest(ready)
  /\ found' = IF PopItem(ready) = None THEN found
              ELSE found \cup {PopItem(ready)}
  /\ UNCHANGED <<graphVars, node_ready, waiting_for, pc, n_jobs, active_edges,
                 completion_time, current_time, start_times, push_count,
                 sim_finished, finished, prioVars>>

\* Plan.edge_finished(edge), called by the dispatcher: at most once for an
\* edge, and for an edge that find_work returned or that has no inputs (such
\* an edge waits for no node, so no edge_finished can queue it).
DispatcherFinished(edge) ==
  /\ pc = "api"
  /\ edge \notin finished
  /\ edge \in found \/ Len(inputs[edge]) = 0
  /\ LET st == EdgeFinished(PlanState, edge)
     IN  /\ node_ready' = st.nr
         /\ ready' = st.q
         /\ push_count' = st.pushed
  /\ finished' = finished \cup {edge}
  /\ UNCHANGED <<graphVars, waiting_for, pc, n_jobs, active_edges,
                 completion_time, current_time, start_times, sim_finished,
                 found, prioVars>>

\* Plan.execute(n): the locals before the loop.
ExecuteStart(n) ==
  /\ pc = "api"
  /\ pc' = "assign"
  /\ n_jobs' = n
  /\ active_edges' = [i \in 1 .. n |-> None]
  /\ completion_time' = [i \in 1 .. n |-> None]
  /\ current_time' = 0
  /\ start_times' = [e \in EdgeSet |-> None]
  /\ UNCHANGED <<graphVars, node_ready, ready, waiting_for, histVars,
                 prioVars>>

\* The loop over the slots left after the first job it assigns.
AssignLoopOnePerPass(st, i) ==
  LET idle == {k \in i .. n_jobs : st.act[k] = None}
      e == PopItem(st.q)
  IN  IF idle = {} \/ e = None THEN st
      ELSE LET k == CHOOSE m \in idle : \A o \in idle : m <= o
           IN  [q |-> PopRest(st.q),
                act |-> [st.act EXCEPT ![k] = e],
                ct |-> [st.ct EXCEPT ![k] = current_time + actual_run_time_ms[e]],
                starts |-> [st.starts EXCEPT ![e] = current_time]]

\* execute's "assign any new jobs" loop, from slot i; st is [q: the ready
\* queue, act: active_edges, ct: completion_time, starts: start_times].
RECURSIVE AssignLoop(_, _)
AssignLoop(st, i) ==
  IF i > n_jobs THEN st
  ELSE IF st.act[i] = None
       THEN LET e == PopItem(st.q)
            IN  IF e = None THEN st
                ELSE AssignLoop(
                       [q |-> PopRest(st.q),
                        act |-> [st.act EXCEPT ![i] = e],
                        ct |-> [st.ct EXCEPT
                                  ![i] = current_time + actual_run_time_ms[e]],
                        starts |-> [st.starts EXCEPT ![e] = current_time]],
                       i + 1)
       ELSE AssignLoop(st, i + 1)

\* One pass of execute's loop up to the "are we done" test.
ExecuteAssign ==
  /\ pc = "assign"
  /\ LET st == AssignLoop([q |-> ready, act |-> active_edges,
                           ct |-> completion_time, starts |-> start_times], 1)
     IN  /\ ready' = st.q
         /\ active_edges' = st.act
         /\ completion_time' = st.ct
         /\ start_times' = st.starts
         /\ pc' = IF \A i \in 1 .. n_jobs : st.act[i] = None
                  THEN "done" ELSE "complete"
  /\ UNCHANGED <<graphVars, node_ready, waiting_for, n_jobs, current_time,
                 histVars, prioVars>>

\* min(t for t in completion_time if t is not None)
NextCompletion(ct) ==
  CHOOSE t \in {ct[i] : i \in {j \in DOMAIN ct : ct[j] # None}} :
    \A i \in DOMAIN ct : ct[i] # None => t <= ct[i]

\* The loop of completions without the two lines that free the slot.
RECURSIVE CompleteLoopKeepsSlot(_, _, _)
CompleteLoopKeepsSlot(st, now, i) ==
  IF i > n_jobs THEN st
  ELSE IF st.ct[i] # now THEN CompleteLoopKeepsSlot(st, now, i + 1)
       ELSE CompleteLoopKeepsSlot(
              [st EXCEPT !.plan = EdgeFinished(st.plan, st.act[i]),
                         !.fin[st.act[i]] = @ + 1],
              now, i + 1)

\* execute's "mark any jobs as completed" loop at time now, from slot i; st is
\* [plan: the state edge_finished works on, act: active_edges,
\*  ct: completion_time, fin: the count of execute's edge_finished calls].
RECURSIVE CompleteLoop(_, _, _)
CompleteLoop(st, now, i) ==
  IF i > n_jobs THEN st
  ELSE IF st.ct[i] # now THEN CompleteLoop(st, now, i + 1)
       ELSE CompleteLoop(
              [plan |-> EdgeFinished(st.plan, st.act[i]),
               act |-> [st.act EXCEPT ![i] = None],
               ct |-> [st.ct EXCEPT ![i] = None],
               fin |-> [st.fin EXCEPT ![st.act[i]] = @ + 1]],
              now, i + 1)

\* The rest of the pass: advance the clock and complete the jobs due.
ExecuteComplete ==
  /\ pc = "complete"
  /\ LET now == NextCompletion(completion_time)
         st == CompleteLoop([plan |-> PlanState, act |-> active_edges,
                             ct |-> completion_time, fin |-> sim_finished],
                            now, 1)
     IN  /\ current_time' = now
         /\ node_ready' = st.plan.nr
         /\ ready' = st.plan.q
         /\ push_count' = st.plan.pushed
         /\ active_edges' = st.act
         /\ completion_time' = st.ct
         /\ sim_finished' = st.fin
  /\ pc' = "assign"
  /\ UNCHANGED <<graphVars, waiting_for, n_jobs, start_times, found, finished,
                 prioVars>>

PlanNext ==
  \/ FindWork
  \/ \E edge \in EdgeSet : DispatcherFinished(edge)
  \/ \E n \in 1 .. MaxJobs : ExecuteStart(n)
  \/ ExecuteAssign
  \/ ExecuteComplete

SpecPlan == PlanInit /\ [][PlanNext]_vars

\* ------------------------------------------------------------- p75_runtime
\* The list comprehension [e.run_time_ms for e in es if it is not None].
RECURSIVE AvailableRunTimes(_, _)
AvailableRunTimes(es, rt) ==
  IF es = <<>> THEN <<>>
  ELSE (IF rt[Head(es)] # None THEN <<rt[Head(es)]>> ELSE <<>>)
       \o AvailableRunTimes(Tail(es), rt)

\* list.sort(): ascending.
RECURSIVE InsertSorted(_, _)
InsertSorted(sorted, x) ==
  IF sorted = <<>> THEN <<x>>
  ELSE IF x < Head(sorted) THEN <<x>> \o sorted
       ELSE <<Head(sorted)>> \o InsertSorted(Tail(sorted), x)

RECURSIVE Sort(_)
Sort(xs) == IF xs = <<>> THEN <<>> ELSE InsertSorted(Sort(Tail(xs)), Head(xs))

\* The rank taken as three quarters of the count.
p75_runtimeThreeQuarters(es, rt) ==
  LET available_run_times == AvailableRunTimes(es, rt)
      n == Len(available_run_times)
      idx == (3 * n) \div 4
  IN  IF n = 0 THEN 1 ELSE Sort(available_run_times)[idx + 1]

p75_runtime(es, rt) ==
  LET available_run_times == AvailableRunTimes(es, rt)
      n == Len(available_run_times)
      idx == (n - 1) - (n \div 4)
  IN  IF n = 0 THEN 1 ELSE Sort(available_run_times)[idx + 1]

\* A call p75_runtime(edges) on a list of up to MaxP75Len edges, each with an
\* estimate of P75Values or none.
P75Init ==
  /\ edges \in {SeqOf(n) : n \in 0 .. MaxP75Len}
  /\ inputs = [e \in EdgeSet |-> <<>>]
  /\ outputs = Outputs(Len(edges))
  /\ in_edge = InEdges(Len(edges))
  /\ run_time_ms \in [EdgeSet -> {None} \cup P75Values]
  /\ actual_run_time_ms = [e \in EdgeSet |-> 1]
  /\ id = [e \in EdgeSet |-> None]
  /\ priority = [e \in EdgeSet |-> None]
  /\ default_run_time = None
  /\ cp_pc = "p75"
  /\ work_queue = <<>>
  /\ cp_active_edges = {}
  /\ max_id = None
  /\ critical_time = [e \in EdgeSet |-> None]
  /\ removed = {}
  /\ node_ready = [n \in NodeSet |-> FALSE]
  /\ ready = <<>>
  /\ waiting_for = [n \in NodeSet |-> <<>>]
  /\ pc = "unused"
  /\ n_jobs = 0
  /\ active_edges = <<>>
  /\ completion_time = <<>>
  /\ current_time = 0
  /\ start_times = [e \in EdgeSet |-> None]
  /\ push_count = [e \in EdgeSet |-> 0]
  /\ sim_finished = [e \in EdgeSet |-> 0]
  /\ found = {}
  /\ finished = {}

\* The call returns; default_run_time holds what it returned.
P75Call ==
  /\ cp_pc = "p75"
  /\ default_run_time' = p75_runtime(edges, run_time_ms)
  /\ cp_pc' = "p75_done"
  /\ UNCHANGED <<graphVars, planVars, histVars, work_queue, cp_active_edges,
                 max_id, critical_time, removed>>

SpecP75 == P75Init /\ [][P75Call]_vars

\* ------------------------------------------ compute_priority_critical_time
\* Priorities at which the model stops the loop of a cyclic graph; no acyclic
\* graph of the model comes near it.
PriorityCap == 8 * MaxRunTime

\* Graphs whose edges have at most one input, which may be any node: these
\* include the dependency cycles.
OneInputGraphs(n) == [1 .. n -> {<<>>} \cup {<<a>> : a \in 0 .. n + 1}]

\* Whether edge a depends on an output of edge b through at most k inputs.
RECURSIVE DependsOn(_, _, _)
DependsOn(a, b, k) ==
  /\ k > 0
  /\ \E i \in 1 .. Len(inputs[a]) :
       LET p == in_edge[inputs[a][i]]
       IN  p # None /\ (p = b \/ DependsOn(p, b, k - 1))

Cyclic == \E e \in EdgeSet : DependsOn(e, e, Len(edges))

run_time_or_default(edge) ==
  IF run_time_ms[edge] # None THEN run_time_ms[edge] ELSE default_run_time

\* The edge the variable e is bound to once the loop "for e in edges" that
\* sets the first priorities has ended: the last of the list.
LoopVarE == edges[Len(edges)]

\* The state before compute_priority_critical_time(nodes, edges, default) for
\* one graph of the builder, the edges listed in any order, and the default
\* the runtime estimator gives.
PrioInit ==
  /\ \E n \in EdgeCounts :
       /\ edges \in {s \in [1 .. n -> 1 .. n] : Injective(s)}
       /\ inputs \in DagInputs(n) \cup OneInputGraphs(n)
  /\ outputs = Outputs(Len(edges))
  /\ in_edge = InEdges(Len(edges))
  /\ run_time_ms \in [EdgeSet -> {None} \cup 1 .. MaxRunTime]
  /\ actual_run_time_ms = [e \in EdgeSet |-> 1]
  /\ id = [e \in EdgeSet |-> None]
  /\ priority = [e \in EdgeSet |-> None]
  /\ default_run_time = p75_runtime(edges, run_time_ms)
  /\ cp_pc = "start"
  /\ work_queue = <<>>
  /\ cp_active_edges = {}
  /\ max_id = None
  /\ critical_time = [e \in EdgeSet |-> None]
  /\ removed = {}
  /\ node_ready = [n \in NodeSet |-> FALSE]
  /\ ready = <<>>
  /\ waiting_for = [n \in NodeSet |-> <<>>]
  /\ pc = "unused"
  /\ n_jobs = 0
  /\ active_edges = <<>>
  /\ completion_time = <<>>
  /\ current_time = 0
  /\ start_times = [e \in EdgeSet |-> None]
  /\ push_count = [e \in EdgeSet |-> 0]
  /\ sim_finished = [e \in EdgeSet |-> 0]
  /\ found = {}
  /\ finished = {}

\* The first priority keeps what the edge's priority already holds.
InitialPriorityKept(prio, e) ==
  IF prio[e] # None THEN prio[e] ELSE run_time_or_default(e)

\* "e.priority = run_time_or_default(e)": the first priority of edge e, whatever
\* the priorities prio held before the call.
InitialPriority(prio, e) == run_time_or_default(e)

\* work_queue, active_edges and the first priorities.
ComputeStart ==
  /\ cp_pc = "start"
  /\ work_queue' = edges
  /\ cp_active_edges' = {edges[i] : i \in 1 .. Len(edges)}
  /\ priority' = [e \in EdgeSet |-> InitialPriority(priority, e)]
  /\ cp_pc' = "relax"
  /\ UNCHANGED <<edges, inputs, outputs, in_edge, run_time_ms,
                 actual_run_time_ms, id, planVars, histVars, default_run_time,
                 max_id, critical_time, removed>>

\* The loop over the inputs without its test "if e_in in active_edges": every
\* edge whose priority is raised is appended to the deque.
RECURSIVE RelaxInputsAlwaysAppends(_, _, _)
RelaxInputsAlwaysAppends(st, ins, i) ==
  IF i > Len(ins) THEN st
  ELSE LET e_in == in_edge[ins[i]]
           proposed_time == st.prio[LoopVarE] + run_time_or_default(e_in)
       IN  IF e_in = None THEN RelaxInputsAlwaysAppends(st, ins, i + 1)
           ELSE IF proposed_time <= st.prio[e_in]
                THEN RelaxInputsAlwaysAppends(st, ins, i + 1)
           ELSE RelaxInputsAlwaysAppends(
                  [prio |-> [st.prio EXCEPT ![e_in] = proposed_time],
                   wq |-> Append(st.wq, e_in),
                   act |-> st.act \cup {e_in}],
                  ins, i + 1)

\* The loop "for n in edge.inputs", from position i; st is [prio: the
\* priorities, wq: work_queue, act: active_edges].
RECURSIVE RelaxInputs(_, _, _)
RelaxInputs(st, ins, i) ==
  IF i > Len(ins) THEN st
  ELSE LET e_in == in_edge[ins[i]]
           proposed_time == st.prio[LoopVarE] + run_time_or_default(e_in)
       IN  IF e_in = None THEN RelaxInputs(st, ins, i + 1)
           ELSE IF proposed_time <= st.prio[e_in]
                THEN RelaxInputs(st, ins, i + 1)
           ELSE IF e_in \in st.act
                THEN RelaxInputs([st EXCEPT !.prio[e_in] = proposed_time],
                                 ins, i + 1)
           ELSE RelaxInputs([prio |-> [st.prio EXCEPT ![e_in] = proposed_time],
                             wq |-> Append(st.wq, e_in),
                             act |-> st.act \cup {e_in}],
                            ins, i + 1)

\* The body of the loop "while len(work_queue) > 0" on st.
RelaxPass(st) ==
  LET edge == Head(st.wq)
  IN  RelaxInputs([prio |-> st.prio, wq |-> Tail(st.wq),
                   act |-> st.act \ {edge}],
                  inputs[edge], 1)

\* The loop "while len(work_queue) > 0" run to its end from st.
RECURSIVE RelaxLoop(_)
RelaxLoop(st) == IF Len(st.wq) = 0 THEN st ELSE RelaxLoop(RelaxPass(st))

\* A pass that reads work_queue[0] and leaves it in the deque.
RelaxKeepsHead ==
  /\ cp_pc = "relax"
  /\ Len(work_queue) > 0
  /\ \A e \in EdgeSet : priority[e] <= PriorityCap
  /\ LET edge == Head(work_queue)
         st == RelaxInputs([prio |-> priority, wq |-> work_queue,
                            act |-> cp_active_edges],
                           inputs[edge], 1)
     IN  /\ priority' = st.prio
         /\ work_queue' = st.wq
         /\ cp_active_edges' = st.act
         /\ removed' = removed \cup {edge}
  /\ UNCHANGED <<edges, inputs, outputs, in_edge, run_time_ms,
                 actual_run_time_ms, id, planVars, histVars, default_run_time,
                 cp_pc, max_id, critical_time>>

\* One pass of the loop "while len(work_queue) > 0".
Relax ==
  /\ cp_pc = "relax"
  /\ Len(work_queue) > 0
  /\ \A e \in EdgeSet : priority[e] <= PriorityCap
  /\ LET edge == Head(work_queue)
         st == RelaxPass([prio |-> priority, wq |-> work_queue,
                          act |-> cp_active_edges])
     IN  /\ priority' = st.prio
         /\ work_queue' = st.wq
         /\ cp_active_edges' = st.act
         /\ removed' = removed \cup {edge}
  /\ UNCHANGED <<edges, inputs, outputs, in_edge, run_time_ms,
                 actual_run_time_ms, id, planVars, histVars, default_run_time,
                 cp_pc, max_id, critical_time>>

\* max(e.id for e in edges)
MaxId(ids) == CHOOSE m \in {ids[e] : e \in EdgeSet} : \A e \in EdgeSet : ids[e] <= m

\* The fold with max_id, not max_id + 1, as the weight of the critical time.
FoldPriorityNarrow(prio, ids, m) ==
  [e \in EdgeSet |-> prio[e] * m + (m - ids[e])]

\* The loop that folds the id into the priority.
FoldPriority(prio, ids, m) ==
  [e \in EdgeSet |-> prio[e] * (m + 1) + (m - ids[e])]

\* The end of the loop and the lines after it.  The ids, unique and not
\* negative, are the builder's; nothing reads them before this, so they are
\* drawn here.  max() of no edges raises ValueError.
Fold ==
  /\ cp_pc = "relax"
  /\ Len(work_queue) = 0
  /\ critical_time' = priority
  /\ IF edges = <<>>
     THEN /\ cp_pc' = "ValueError"
          /\ UNCHANGED <<id, max_id, priority>>
     ELSE /\ id' \in {f \in [EdgeSet -> 0 .. Len(edges) - 1] : Injective(f)}
          /\ max_id' = MaxId(id')
          /\ priority' = FoldPriority(priority, id', max_id')
          /\ cp_pc' = "done"
  /\ UNCHANGED <<edges, inputs, outputs, in_edge, run_time_ms,
                 actual_run_time_ms, planVars, histVars, default_run_time,
                 work_queue, cp_active_edges, removed>>

\* A whole call compute_priority_critical_time(nodes, edges, default_run_time)
\* on the graph as it is, the edges holding the priorities prio and the ids
\* id: the priorities it leaves.
ComputePriorities(prio) ==
  LET st == RelaxLoop([prio |-> [e \in EdgeSet |-> InitialPriority(prio, e)],
                       wq |-> edges,
                       act |-> {edges[i] : i \in 1 .. Len(edges)}])
  IN  FoldPriority(st.prio, id, MaxId(id))

PrioNext == ComputeStart \/ Relax \/ Fold

SpecPrio == PrioInit /\ [][PrioNext]_vars

\* The call up to the end of its while loop, running on: a step that can be
\* taken is taken.
RelaxNext == ComputeStart \/ Relax

SpecRelaxFair == PrioInit /\ [][RelaxNext]_vars /\ WF_vars(RelaxNext)

\* ================================================================== claims
\* A Plan nothing has been called on since its construction.
FreshPlan == finished = {} /\ found = {}

Max(S) == CHOOSE m \in S : \A x \in S : x <= m

\* ----------------------------------------------------------------------- C1
\* C1: right after Plan construction, before any edge_finished call, the ready
\* queue holds every edge whose inputs list is empty.
C1_ZeroInputEdgesQueuedAtConstruction ==
  (pc = "api" /\ FreshPlan) =>
    \A e \in EdgeSet : Len(inputs[e]) = 0 => InQueue(ready, e)

\* ----------------------------------------------------------------------- C2
\* C2: for an acyclic graph and n_jobs >= the number of edges, when execute
\* (called on the Plan as constructed) returns, edge_finished has been invoked
\* exactly once for every edge and every edge has a start time.
C2_ExecuteFinishesEveryEdge ==
  (pc = "done" /\ FreshPlan /\ n_jobs >= Len(edges)) =>
    \A e \in EdgeSet : sim_finished[e] = 1 /\ start_times[e] # None

C4_EachEdgePushedExactlyOnce ==
  (pc = "api" /\ finished \subseteq found) =>
    \A e \in EdgeSet :
      push_count[e] = IF AllInputsReady(node_ready, e) THEN 1 ELSE 0

\* ----------------------------------------------------------------------- C5
\* C5: an edge is in the ready queue or has a start time only if all its
\* input nodes are ready; and an edge that has a start time starts no earlier
\* than the end (start time plus actual run time) of every started edge that
\* produces one of its inputs.
C5_StartedOnlyWhenInputsReady ==
  /\ \A e \in EdgeSet :
       (InQueue(ready, e) \/ start_times[e] # None)
         => AllInputsReady(node_ready, e)
  /\ \A e \in EdgeSet : \A i \in 1 .. Len(inputs[e]) :
       LET p == in_edge[inputs[e][i]]
       IN  (p # None /\ start_times[e] # None /\ start_times[p] # None)
             => start_times[e] >= start_times[p] + actual_run_time_ms[p]

\* An execute that has returned and started an edge exactly when the started
\* producer of one of its two inputs ended.
C5_Witness ==
  /\ pc = "done"
  /\ \E e \in EdgeSet : \E i \in 1 .. Len(inputs[e]) :
       LET p == in_edge[inputs[e][i]]
       IN  /\ Len(inputs[e]) = 2
           /\ p # None /\ start_times[e] # None /\ start_times[p] # None
           /\ start_times[e] = start_times[p] + actual_run_time_ms[p]

\* ----------------------------------------------------------------------- C6
\* Whether node n counts as ready once the edges of S have run: it has no
\* producing edge, or its producing edge is in S.
ReadyAfter(n, S) == in_edge[n] = None \/ in_edge[n] \in S

\* The single-worker timeline: from time t with the edges of S done, start
\* the edge of highest priority among those whose inputs are all ready, then
\* go on from its end.
RECURSIVE GreedyTimeline(_, _, _)
GreedyTimeline(S, t, starts) ==
  LET runnable == {e \in EdgeSet \ S :
                     \A i \in 1 .. Len(inputs[e]) : ReadyAfter(inputs[e][i], S)}
  IN  IF runnable = {} THEN starts
      ELSE LET e == CHOOSE x \in runnable :
                      \A y \in runnable : priority[x] >= priority[y]
           IN  GreedyTimeline(S \cup {e}, t + actual_run_time_ms[e],
                              [starts EXCEPT ![e] = t])

\* C6: with n_jobs = 1, execute (called on the Plan as constructed) returns
\* the single-worker timeline: the edges in the greedy topological order by
\* priority, the first at 0 and each at the end of the one before.
C6_SingleWorkerTimeline ==
  (pc = "done" /\ FreshPlan /\ n_jobs = 1) =>
    start_times = GreedyTimeline({}, 0, [e \in EdgeSet |-> None])

\* ----------------------------------------------------------------------- C7
\* The ends of the producers of e's inputs.
ProducerEnds(e) ==
  {start_times[in_edge[inputs[e][i]]]
     + actual_run_time_ms[in_edge[inputs[e][i]]] :
       i \in {j \in 1 .. Len(inputs[e]) : in_edge[inputs[e][j]] # None}}

\* C7: with n_jobs >= the number of edges, execute (called on the Plan as
\* constructed) returns for every edge the largest end of the producers of its
\* inputs, and 0 for an edge with no such input.
C7_CriticalPathSchedule ==
  (pc = "done" /\ FreshPlan /\ n_jobs >= Len(edges)) =>
    \A e \in EdgeSet :
      /\ start_times[e] # None
      /\ start_times[e] =
           IF ProducerEnds(e) = {} THEN 0 ELSE Max(ProducerEnds(e))

\* ----------------------------------------------------------------------- C8
\* The edges that consume an output of e.
Consumers(e) ==
  {c \in EdgeSet : \E i \in 1 .. Len(inputs[c]) : in_edge[inputs[c][i]] = e}

\* The longest chain of work from e through the consumers of its outputs, of
\* at most k edges.
RECURSIVE LongestChain(_, _)
LongestChain(e, k) ==
  run_time_or_default(e)
    + (IF k = 1 \/ Consumers(e) = {} THEN 0
       ELSE Max({LongestChain(c, k - 1) : c \in Consumers(e)}))

\* C8: on an acyclic graph the critical time of every edge (its priority when
\* the worklist loop ends, before the id is folded in) is the length of the
\* longest chain of work that starts at it.
C8_CriticalTimeIsLongestChain ==
  (cp_pc = "done" /\ ~Cyclic) =>
    \A e \in EdgeSet : critical_time[e] = LongestChain(e, Len(edges))

\* ----------------------------------------------------------------------- C9
\* C9: after compute_priorities, of two distinct edges a has the higher
\* priority exactly when it has the larger critical time or the same critical
\* time and the smaller id; so no two edges have the same priority.
C9_PriorityOrdersByCriticalTimeThenId ==
  cp_pc = "done" =>
    \A a, b \in EdgeSet :
      a # b =>
        /\ priority[a] # priority[b]
        /\ priority[a] > priority[b]
             <=> \/ critical_time[a] > critical_time[b]
                 \/ /\ critical_time[a] = critical_time[b]
                    /\ id[a] < id[b]

\* compute_priorities has returned for three edges: two of the same critical
\* time, ordered by id, and a third of a smaller critical time and the
\* smallest id.
C9_Witness ==
  /\ cp_pc = "done"
  /\ \E a, b, c \in EdgeSet :
       /\ critical_time[a] = critical_time[b] /\ id[a] < id[b]
       /\ priority[a] > priority[b]
       /\ critical_time[c] < critical_time[b] /\ id[c] < id[a]
       /\ priority[c] < priority[b]

\* ---------------------------------------------------------------------- C10
\* C10: given a graph with a dependency cycle, compute_priorities ends in a
\* cycle-detected error before the relaxation begins.
C10_CycleRejectedBeforeRelaxation ==
  Cyclic => cp_pc \in {"start", "CycleError"}

\* C11: on an acyclic graph the relaxation loop ends: from the start of the
\* call, the control reaches the end of the loop with the worklist empty and
\* every edge removed from it at least once.
C11_RelaxationTerminates ==
  (cp_pc = "start" /\ ~Cyclic)
    ~> (cp_pc = "relax" /\ Len(work_queue) = 0 /\ removed = EdgeSet)

\* The loop has ended on an acyclic graph of three edges, each taken out of
\* the worklist, after a pass raised a priority.
C11_Witness ==
  /\ cp_pc = "relax" /\ Len(work_queue) = 0 /\ ~Cyclic
  /\ Len(edges) = 3 /\ removed = EdgeSet
  /\ \E e \in EdgeSet : priority[e] > run_time_or_default(e)

\* The node's producing edge has completed: edge_finished was called on it,
\* by the dispatcher or by execute.
ProducerCompleted(n) ==
  in_edge[n] # None /\ (in_edge[n] \in finished \/ sim_finished[in_edge[n]] > 0)

\* C12: in every state of a Plan run a node is ready exactly when it has no
\* producing edge or its producing edge has completed.
C12_ReadyIffProducedOrSource ==
  \A n \in NodeSet : node_ready[n] <=> (in_edge[n] = None \/ ProducerCompleted(n))

\* Slot i is idle before the step and holds an edge after it.
StartedInStep(i) == active_edges[i] = None /\ active_edges'[i] # None

\* C13: every edge the assign step starts was the edge of highest priority in
\* the ready queue when it was taken: the edges started come out of the queue,
\* each of them has a higher priority than every edge left in the queue, and
\* slots filled in one pass get their edges in strictly descending priority.
C13_AssignTakesHighestPriority ==
  [][pc = "assign" =>
       /\ {ready[k] : k \in 1 .. Len(ready)}
            = {ready'[k] : k \in 1 .. Len(ready')}
                \cup {active_edges'[i] : i \in {j \in 1 .. n_jobs : StartedInStep(j)}}
       /\ \A i \in 1 .. n_jobs :
            StartedInStep(i) =>
              /\ \A k \in 1 .. Len(ready') :
                   priority[active_edges'[i]] > priority[ready'[k]]
              /\ \A j \in i + 1 .. n_jobs :
                   StartedInStep(j) =>
                     priority[active_edges'[i]] > priority[active_edges'[j]]
    ]_vars

\* An assign pass has just filled two idle slots from a queue of two edges.
C13_Witness ==
  /\ pc = "complete" /\ n_jobs >= 2
  /\ active_edges[1] # None /\ active_edges[2] # None
  /\ start_times[active_edges[1]] = current_time
  /\ start_times[active_edges[2]] = current_time
  /\ priority[active_edges[1]] > priority[active_edges[2]]

\* The edges that have an estimate.
Estimated == {e \in EdgeSet : run_time_ms[e] # None}

\* C15: p75_runtime returns 1 when no edge has an estimate; otherwise the rank
\* (n - 1) - floor(n / 4) is a valid zero-based index of the n estimates and
\* the value returned is the estimate at that rank of the ascending order: an
\* estimate of some edge, with at most rank-many estimates below it and more
\* than rank-many estimates not above it.  The estimates 5, 10, 15, 20 give 15.
C15_P75IsRankOfSorted ==
  cp_pc = "p75_done" =>
    LET n == Cardinality(Estimated)
        rank == (n - 1) - (n \div 4)
        r == default_run_time
    IN  /\ n = 0 => r = 1
        /\ n > 0 =>
             /\ rank \in 0 .. n - 1
             /\ \E e \in Estimated : run_time_ms[e] = r
             /\ Cardinality({e \in Estimated : run_time_ms[e] < r}) <= rank
             /\ Cardinality({e \in Estimated : run_time_ms[e] <= r}) > rank
        /\ run_time_ms = <<5, 10, 15, 20>> => r = 15

\* The call has returned 15 for the estimates 5, 10, 15, 20.
C15_Witness ==
  cp_pc = "p75_done" /\ run_time_ms = <<5, 10, 15, 20>> /\ default_run_time = 15

\* C16: compute_priority_critical_time is idempotent on an acyclic graph: a
\* second call, on the graph as the first call left it (its priorities and
\* ids), leaves every priority as the first call left it.
C16_ComputePrioritiesIdempotent ==
  (cp_pc = "done" /\ ~Cyclic) => ComputePriorities(priority) = priority

\* The first call has ended on an acyclic graph of three edges on which the
\* relaxation raised a priority.
C16_Witness ==
  /\ cp_pc = "done" /\ ~Cyclic /\ Len(edges) = 3
  /\ \E e \in EdgeSet : critical_time[e] > run_time_or_default(e)
  /\ ComputePriorities(priority) = priority

\* C17: a graph of no edges is valid input: compute_priority_critical_time
\* raises no error on it, and execute on it ends at its first test, with an
\* empty result and the clock at 0.
C17_ZeroEdgesValid ==
  Len(edges) = 0 =>
    /\ cp_pc # "ValueError"
    /\ pc # "complete"
    /\ pc \in {"assign", "done"} => (start_times = <<>> /\ current_time = 0)

\* C18: at every boundary of the relaxation loop the set active_edges is the
\* set of the edges in the worklist, and no edge is in the worklist twice.
C18_ActiveSetMirrorsWorklist ==
  cp_pc = "relax" =>
    /\ cp_active_edges = {work_queue[i] : i \in 1 .. Len(work_queue)}
    /\ \A i, j \in 1 .. Len(work_queue) :
         work_queue[i] = work_queue[j] => i = j

\* The worklist holds an edge that was taken out before and put back, next to
\* an edge not yet taken out whose priority was raised while it waited.
C18_Witness ==
  /\ cp_pc = "relax"
  /\ \E e \in removed \cap cp_active_edges : InQueue(work_queue, e)
  /\ \E f \in cp_active_edges \ removed : priority[f] > run_time_or_default(f)

\* The sum of run_time_or_default over the edges 1 .. k.
RECURSIVE SumRunTimes(_)
SumRunTimes(k) == IF k = 0 THEN 0 ELSE run_time_or_default(k) + SumRunTimes(k - 1)

\* C19: throughout the relaxation loop on an acyclic graph, no pass lowers an
\* edge's priority, and after every pass each edge's priority is at least its
\* run_time_or_default and at most the sum of run_time_or_default over all
\* the edges.
C19_PriorityMonotoneAndBounded ==
  [][(cp_pc = "relax" /\ cp_pc' = "relax" /\ ~Cyclic) =>
       \A e \in EdgeSet :
         /\ priority'[e] >= priority[e]
         /\ priority'[e] >= run_time_or_default(e)
         /\ priority'[e] <= SumRunTimes(Len(edges))
    ]_vars

\* The edges execute has started and not yet completed.
Running == {e \in EdgeSet : start_times[e] # None /\ sim_finished[e] = 0}

\* C20: in every state of execute each slot holds at most one edge and has a
\* completion time exactly when it holds one, the edges running are the edges
\* in the slots, each in one slot, so at most n_jobs of them; and right after
\* an assign pass every slot is busy or the ready queue is empty.
C20_AtMostNJobsAndWorkConserving ==
  pc \in {"assign", "complete", "done"} =>
    /\ DOMAIN active_edges = 1 .. n_jobs
    /\ DOMAIN completion_time = 1 .. n_jobs
    /\ \A i \in 1 .. n_jobs :
         /\ active_edges[i] \in EdgeSet \cup {None}
         /\ active_edges[i] = None <=> completion_time[i] = None
         /\ \A j \in 1 .. n_jobs :
              (active_edges[i] # None /\ active_edges[i] = active_edges[j]) => i = j
    /\ Running = {active_edges[i] : i \in 1 .. n_jobs} \ {None}
    /\ Cardinality(Running) <= n_jobs
    /\ pc \in {"complete", "done"} =>
         \/ \A i \in 1 .. n_jobs : active_edges[i] # None
         \/ Len(ready) = 0

\* Right after an assign pass the only slot is busy and an edge waits in the
\* ready queue.
C20_Witness ==
  /\ pc = "complete" /\ n_jobs = 1
  /\ active_edges[1] # None /\ Len(ready) > 0
  /\ Cardinality(Running) = 1

====
